---- MODULE Spec2Model ----
(***************************************************************************)
(* Model of the round/session engine of the Memory Challenge game: the     *)
(* GameScreen React component (state hooks, refs, interval timers and      *)
(* delayed callbacks) together with the onGameEnd collaborator of Home.    *)
(*                                                                         *)
(* A function of the component is created anew on every render and reads   *)
(* the state of the render that created it.  Handlers attached to the      *)
(* rendered elements therefore read the current state, while interval and  *)
(* timeout callbacks keep the state of the render in which they were       *)
(* scheduled.  That captured state is the "env" record carried by every    *)
(* pending timer below.  Updater functions (prev => ...) and refs always   *)
(* see the current value.                                                   *)
(*                                                                         *)
(* Time is explicit: every pending timer has its remaining delay in        *)
(* milliseconds, and Advance lets time pass until the next timer is due.   *)
(* The player acts at any of these instants, before or after the callbacks *)
(* that are due, and performs at most MaxMoves actions in a session.       *)
(***************************************************************************)
EXTENDS Integers, FiniteSets, Sequences, TLC

VARIABLES
    gameState,            \* useState gameState
    countdownTimer,       \* useState countdownTimer
    currentPhase,         \* useState currentPhase
    savedTimerState,      \* useState savedTimerState
    menuOpen,             \* useState menuOpen
    showSuccessPopup,     \* useState showSuccessPopup
    showFailurePopup,     \* useState showFailurePopup
    lastScore,            \* useState lastScore
    levelPassed,          \* useState levelPassed
    showNextLevelButton,  \* useState showNextLevelButton
    levelFailed,          \* useState levelFailed
    showRetryButton,      \* useState showRetryButton
    isPausedRef,          \* useRef isPausedRef.current
    intervals,            \* live setInterval timers; cur marks the one held by timerRef / answerTimerRef
    timeouts,             \* pending setTimeout callbacks
    storedHighest,        \* localStorage 'highestLevel' (0: key absent)
    mounted,              \* Home renders GameScreen
    onGameEndCalls,       \* number of calls of the onGameEnd prop
    evals,                \* evaluations of the selection since the last round start
    moves,                \* number of player actions so far
    storageWrites,        \* number of localStorage.setItem('highestLevel', ...) calls so far
    wallet                \* WalletService: its state, the call in progress and the connector

vars == <<gameState, countdownTimer, currentPhase, savedTimerState, menuOpen,
          showSuccessPopup, showFailurePopup, lastScore, levelPassed,
          showNextLevelButton, levelFailed, showRetryButton, isPausedRef,
          intervals, timeouts, storedHighest, mounted, onGameEndCalls, evals,
          moves, storageWrites, wallet>>

---------------------------------------------------------------------------
(* Bounds of the model *)

MaxLevel == 3
MaxMoves == 6

(* Delays of the program, in milliseconds *)

TickMs == 1000
ExpireDelayMs == 100
NextLevelDelayMs == 500
AutoStartDelayMs == 1000
RetryDelayMs == 1000
ResumeDelayMs == 50
MenuCloseDelayMs == 50
ButtonDelayMs == 100
GridN == 8
InitialLives == 3

Max(a, b) == IF a >= b THEN a ELSE b
Min(a, b) == IF a <= b THEN a ELSE b

---------------------------------------------------------------------------
(* lib/walletService: the service's state and the wallet connector *)

CELO_MAINNET_CHAIN_ID == 42220
OtherChainId == 1
DefaultGas == 100000

ChainIds == {CELO_MAINNET_CHAIN_ID, OtherChainId}

\* WalletState.balance: '' before the first fetch, else toFixed(4) of a value
NoBalanceText == <<"empty", 0>>
BalanceText(value) == <<"toFixed4", value>>

\* the service between two calls, the connector on chain id
WalletOn(id) ==
    [pc |-> "idle", op |-> "none", nested |-> FALSE, chain |-> id,
     verified |-> FALSE, switched |-> FALSE, estimateFailed |-> FALSE,
     amount |-> 0, balance |-> 0, gas |-> 0, gasPrice |-> 0,
     sent |-> 0, result |-> "none",
     text |-> NoBalanceText, isLoadingBalance |-> FALSE]

WalletAtRest == WalletOn(CELO_MAINNET_CHAIN_ID)

---------------------------------------------------------------------------
(* lib/gameLogic *)

Position(x, y) == x * GridN + y

Origin == <<3, 3>>

\* the cells the model generates shapes in and lets the player click
RegionXY == {Origin, <<Origin[1], Origin[2] + 1>>}
Region == {Position(c[1], c[2]) : c \in RegionXY}

Adjacent(p, q) ==
    \/ p - q = GridN \/ q - p = GridN
    \/ (p - q = 1 /\ p % GridN # 0)
    \/ (q - p = 1 /\ q % GridN # 0)

RECURSIVE Reach(_, _)
Reach(S, R) ==
    LET R2 == R \cup {q \in S : \E p \in R : Adjacent(p, q)}
    IN  IF R2 = R THEN R ELSE Reach(S, R2)

Connected(S) == S = {} \/ \E p \in S : Reach(S, {p}) = S

GridCapacity == GridN * GridN
ShapeBase == 1
ShapeStep == 2
getShapeSize(level) == Min(GridCapacity, ShapeBase + (level \div ShapeStep))

\* the shapes generatePolyomino(size) can return
generatePolyomino(size) ==
    LET n == Min(size, GridCapacity)
    IN  {S \in SUBSET Region :
            /\ Cardinality(S) = n
            /\ Position(Origin[1], Origin[2]) \in S
            /\ Connected(S)}

BaseTimeMs == 3000
StepTimeMs == 1000
MinTimeMs == 1000
getMemorizationTime(level) == Max(MinTimeMs, BaseTimeMs - level * StepTimeMs)
getRecallTime(level) == Max(MinTimeMs, BaseTimeMs - level * StepTimeMs)

\* an accuracy that counts the target cells found and ignores extra picks
calculateAccuracyHitsOnly(cells, selections) ==
    <<Cardinality(cells \cap selections), Cardinality(cells)>>

\* accuracy as the fraction <<|T cap S|, |T cup S|>>; <<0, 0>> when both are empty
calculateAccuracy(cells, selections) ==
    <<Cardinality(cells \cap selections), Cardinality(cells \cup selections)>>

\* accuracy === 1.0; the value for an empty target and empty selection is
\* not defined by the contract: undef is the outcome chosen for it
IsOne(accuracy, undef) ==
    IF accuracy[2] = 0 THEN undef ELSE accuracy[1] = accuracy[2]

---------------------------------------------------------------------------
(* State of a render and closures *)

NoShape == <<>>
Cells(shape) == IF shape = NoShape THEN {} ELSE shape[1]

NeutralSaved == [time |-> 0, phase |-> "idle"]

InitialGameState(highest) ==
    [level |-> 1, score |-> 0, lives |-> InitialLives, isPlaying |-> TRUE,
     isMemorizing |-> FALSE, isRecalling |-> FALSE, showingFeedback |-> FALSE,
     currentShape |-> NoShape, playerSelections |-> {}, accuracy |-> <<0, 1>>,
     isPaused |-> FALSE, gameOver |-> FALSE, highestLevel |-> highest,
     levelWhenDied |-> 1]

\* the hook state as one record m, threaded through the handlers;
\* render records that a setter forced a re-render
Cur ==
    [gs |-> gameState, ct |-> countdownTimer, ph |-> currentPhase,
     saved |-> savedTimerState, mo |-> menuOpen,
     sp |-> showSuccessPopup, fp |-> showFailurePopup, ls |-> lastScore,
     lp |-> levelPassed, nb |-> showNextLevelButton, lf |-> levelFailed,
     rb |-> showRetryButton, ivs |-> intervals, tos |-> timeouts,
     ev |-> evals, render |-> FALSE]

\* what a callback created in the render of m reads from that render
EnvOf(m) ==
    [level |-> m.gs.level, lives |-> m.gs.lives, gameOver |-> m.gs.gameOver,
     shape |-> m.gs.currentShape, sel |-> m.gs.playerSelections,
     saved |-> NeutralSaved]

ResumeEnv(m) == [EnvOf(m) EXCEPT !.saved = m.saved]

NoEnv ==
    [level |-> 1, lives |-> 0, gameOver |-> FALSE, shape |-> NoShape,
     sel |-> {}, saved |-> NeutralSaved]

LivesEnv(m) == [NoEnv EXCEPT !.lives = m.gs.lives]

Timeout(kind, delay, env) == [kind |-> kind, rem |-> delay, env |-> env]

SetTimeout(m, kind, delay, env) ==
    [m EXCEPT !.tos = @ \cup {Timeout(kind, delay, env)}]

SetGameState(m, gs) == [m EXCEPT !.gs = gs, !.render = TRUE]

---------------------------------------------------------------------------
(* Timer subsystem *)

Interval(kind, env) == [kind |-> kind, rem |-> TickMs, env |-> env, cur |-> TRUE]

\* clearInterval(ref.current) for the ref of one kind
ClearRef(ivs, kind) == {i \in ivs : ~(i.kind = kind /\ i.cur)}

\* startMemorizationTimer without the clearInterval of timerRef.current
startMemorizationTimerNoClear(m, env, duration) ==
    [m EXCEPT !.ct = duration,
              !.ph = "memorizing",
              !.ivs = @ \cup {Interval("memorize", env)}]

startMemorizationTimer(m, env, duration) ==
    [m EXCEPT !.ct = duration,
              !.ph = "memorizing",
              !.ivs = ClearRef(@, "memorize") \cup {Interval("memorize", env)}]

startAnswerTimer(m, env, duration) ==
    [m EXCEPT !.ct = duration,
              !.ph = "recalling",
              !.ivs = ClearRef(@, "answer") \cup {Interval("answer", env)}]

\* gameTimerRef is never assigned, so only the two intervals are cleared
stopAllTimers(m) ==
    [m EXCEPT !.ivs = ClearRef(ClearRef(@, "memorize"), "answer")]

transitionToRecallPhase(m, env) ==
    IF isPausedRef THEN m
    ELSE LET m1 == SetGameState(m, [m.gs EXCEPT !.isMemorizing = FALSE,
                                                !.isRecalling = TRUE])
         IN  startAnswerTimer(m1, env, getRecallTime(env.level) \div 1000)

\* the callback of the memorize interval, run by the countdown updater
\* an interval callback that expires only on the value 1
MemorizeTickAtOneOnly(m, i) ==
    LET rearmed == [m EXCEPT !.ivs = (@ \ {i}) \cup {[i EXCEPT !.rem = TickMs]}]
    IN  IF m.ct = 1
        THEN SetTimeout([rearmed EXCEPT !.ivs = ClearRef(@, "memorize"),
                                        !.ph = "idle",
                                        !.ct = 0],
                        "memExpire", ExpireDelayMs, i.env)
        ELSE [rearmed EXCEPT !.ct = m.ct - 1]

MemorizeTick(m, i) ==
    LET rearmed == [m EXCEPT !.ivs = (@ \ {i}) \cup {[i EXCEPT !.rem = TickMs]}]
    IN  IF m.ct <= 1
        THEN SetTimeout([rearmed EXCEPT !.ivs = ClearRef(@, "memorize"),
                                        !.ph = "idle",
                                        !.ct = 0],
                        "memExpire", ExpireDelayMs, i.env)
        ELSE [rearmed EXCEPT !.ct = m.ct - 1]

\* the callback of the answer interval
AnswerTick(m, i) ==
    LET rearmed == [m EXCEPT !.ivs = (@ \ {i}) \cup {[i EXCEPT !.rem = TickMs]}]
    IN  IF m.ct <= 1
        THEN SetTimeout([rearmed EXCEPT !.ivs = ClearRef(@, "answer"),
                                        !.ph = "idle",
                                        !.ct = 0],
                        "ansExpire", ExpireDelayMs, i.env)
        ELSE [rearmed EXCEPT !.ct = m.ct - 1]

---------------------------------------------------------------------------
(* Round handlers *)

startLevel(m, env, newShape) ==
    IF isPausedRef \/ env.gameOver THEN m
    ELSE LET m1 == SetGameState(m, [m.gs EXCEPT !.isMemorizing = TRUE,
                                                !.isRecalling = FALSE,
                                                !.showingFeedback = FALSE,
                                                !.currentShape = <<newShape>>,
                                                !.playerSelections = {}])
         IN  startMemorizationTimer([m1 EXCEPT !.ev = 0], env,
                                    getMemorizationTime(env.level) \div 1000)

\* handleCellClick without the isPausedRef test of its guard
handleCellClickNoPauseGuard(m, x, y) ==
    IF ~m.gs.isRecalling \/ m.gs.gameOver THEN m
    ELSE LET position == Position(x, y)
         IN  SetGameState(m, [m.gs EXCEPT !.playerSelections =
                                 IF position \in @ THEN @ \ {position}
                                                   ELSE @ \cup {position}])

handleCellClick(m, x, y) ==
    IF ~m.gs.isRecalling \/ isPausedRef \/ m.gs.gameOver THEN m
    ELSE LET position == Position(x, y)
         IN  SetGameState(m, [m.gs EXCEPT !.playerSelections =
                                 IF position \in @ THEN @ \ {position}
                                                   ELSE @ \cup {position}])

evaluateSelection(m, env, undef) ==
    LET accuracy == calculateAccuracy(Cells(env.shape), env.sel)
        passed == IsOne(accuracy, undef)
        shown == IF accuracy[2] = 0 THEN (IF undef THEN <<1, 1>> ELSE <<0, 1>>)
                                    ELSE accuracy
        m1 == [stopAllTimers(m) EXCEPT !.ev = Min(@ + 1, 2)]
    IN  IF passed
        THEN LET m2 == [m1 EXCEPT !.ls = env.level * 100, \* floor(level * 100 * 1.0)
                                  !.lp = TRUE,
                                  !.lf = FALSE,
                                  !.sp = TRUE]
             IN  SetGameState(m2, [m2.gs EXCEPT !.accuracy = shown,
                                                !.isMemorizing = FALSE,
                                                !.isRecalling = FALSE,
                                                !.showingFeedback = TRUE])
        ELSE LET newLives == env.lives - 1
                 m2 == [m1 EXCEPT !.lf = TRUE, !.lp = FALSE, !.fp = TRUE]
             IN  SetGameState(m2, [m2.gs EXCEPT
                                      !.accuracy = shown,
                                      !.isMemorizing = FALSE,
                                      !.isRecalling = FALSE,
                                      !.showingFeedback = TRUE,
                                      !.lives = newLives,
                                      !.levelWhenDied =
                                          IF newLives <= 0 THEN m2.gs.level ELSE @])

handleSuccessNext(m) ==
    LET m1 == [m EXCEPT !.sp = FALSE, !.lp = FALSE, !.lf = FALSE, !.nb = FALSE]
        m2 == SetGameState(m1, [m1.gs EXCEPT !.level = @ + 1,
                                             !.score = @ + m.ls,
                                             !.showingFeedback = FALSE])
    IN  SetTimeout(m2, "startLevel", NextLevelDelayMs, EnvOf(m))

\* the lives <= 0 branch shared by the failure handlers
EndGame(m) ==
    SetGameState(m, [m.gs EXCEPT !.gameOver = TRUE,
                                 !.isPlaying = FALSE,
                                 !.showingFeedback = FALSE])

\* handleFailureTryAgain without the setTimeout of startLevel
handleFailureTryAgainNoStart(m) ==
    LET m1 == [m EXCEPT !.fp = FALSE, !.lf = FALSE, !.rb = FALSE]
    IN  IF m.gs.lives <= 0
        THEN EndGame(m1)
        ELSE SetGameState(m1, [m1.gs EXCEPT !.showingFeedback = FALSE])

handleFailureTryAgain(m) ==
    LET m1 == [m EXCEPT !.fp = FALSE, !.lf = FALSE, !.rb = FALSE]
    IN  IF m.gs.lives <= 0
        THEN EndGame(m1)
        ELSE SetTimeout(SetGameState(m1, [m1.gs EXCEPT !.showingFeedback = FALSE]),
                        "startLevel", NextLevelDelayMs, EnvOf(m))

handleRetryLevel(m) ==
    LET m1 == [m EXCEPT !.rb = FALSE, !.lf = FALSE]
    IN  IF m.gs.lives <= 0
        THEN EndGame(m1)
        ELSE SetTimeout(SetGameState(m1, [m1.gs EXCEPT !.showingFeedback = FALSE]),
                        "startLevel", NextLevelDelayMs, EnvOf(m))

\* a handleRetry that starts the score again from 0
handleRetryResetsScore(m) ==
    LET m1 == SetGameState(m, [m.gs EXCEPT !.lives = InitialLives,
                                           !.level = m.gs.levelWhenDied,
                                           !.score = 0,
                                           !.gameOver = FALSE,
                                           !.isPlaying = TRUE,
                                           !.showingFeedback = FALSE,
                                           !.isMemorizing = FALSE,
                                           !.isRecalling = FALSE])
    IN  SetTimeout(m1, "startLevel", RetryDelayMs, EnvOf(m))

\* handleRetry without the reset of lives
handleRetryKeepsLives(m) ==
    LET m1 == SetGameState(m, [m.gs EXCEPT !.level = m.gs.levelWhenDied,
                                           !.gameOver = FALSE,
                                           !.isPlaying = TRUE,
                                           !.showingFeedback = FALSE,
                                           !.isMemorizing = FALSE,
                                           !.isRecalling = FALSE])
    IN  SetTimeout(m1, "startLevel", RetryDelayMs, EnvOf(m))

handleRetry(m) ==
    LET m1 == SetGameState(m, [m.gs EXCEPT !.lives = InitialLives,
                                           !.level = m.gs.levelWhenDied,
                                           !.gameOver = FALSE,
                                           !.isPlaying = TRUE,
                                           !.showingFeedback = FALSE,
                                           !.isMemorizing = FALSE,
                                           !.isRecalling = FALSE])
    IN  SetTimeout(m1, "startLevel", RetryDelayMs, EnvOf(m))

---------------------------------------------------------------------------
(* Pause and resume *)

togglePause(m) ==
    IF m.gs.gameOver THEN m
    ELSE SetGameState(m, [m.gs EXCEPT !.isPaused = ~@])

pauseGame(m) ==
    IF m.gs.gameOver THEN m
    ELSE LET m1 == [m EXCEPT !.saved = [time |-> m.ct, phase |-> m.ph],
                             !.render = TRUE]
             m2 == stopAllTimers(m1)
         IN  SetGameState(m2, [m2.gs EXCEPT !.isPaused = TRUE])

\* resumeGame up to its setTimeout
resumeGame(m, env) ==
    IF env.gameOver THEN m
    ELSE SetTimeout(SetGameState(m, [m.gs EXCEPT !.isPaused = FALSE]),
                    "resume", ResumeDelayMs, env)

\* a resumeGame that restarts the countdown one second short
resumeGameDelayedShort(m, env, undef) ==
    LET e == [env EXCEPT !.saved = NeutralSaved]
        m1 == IF env.saved.time > 0
              THEN IF env.saved.phase = "memorizing"
                   THEN startMemorizationTimer(m, e, env.saved.time - 1)
                   ELSE IF env.saved.phase = "recalling"
                        THEN startAnswerTimer(m, e, env.saved.time - 1)
                        ELSE m
              ELSE m
    IN  [m1 EXCEPT !.saved = NeutralSaved, !.render = TRUE]

\* a resumeGame that restarts the countdown also for a snapshot of 0 seconds
resumeGameDelayedZeroTimer(m, env, undef) ==
    LET e == [env EXCEPT !.saved = NeutralSaved]
        m1 == IF env.saved.time >= 0
              THEN IF env.saved.phase = "memorizing"
                   THEN startMemorizationTimer(m, e, env.saved.time)
                   ELSE IF env.saved.phase = "recalling"
                        THEN startAnswerTimer(m, e, env.saved.time)
                        ELSE m
              ELSE m
    IN  [m1 EXCEPT !.saved = NeutralSaved, !.render = TRUE]

\* a resumeGame that keeps the snapshot
resumeGameDelayedKeepsSnapshot(m, env, undef) ==
    LET e == [env EXCEPT !.saved = NeutralSaved]
        m1 == IF env.saved.time > 0
              THEN IF env.saved.phase = "memorizing"
                   THEN startMemorizationTimer(m, e, env.saved.time)
                   ELSE IF env.saved.phase = "recalling"
                        THEN startAnswerTimer(m, e, env.saved.time)
                        ELSE m
              ELSE IF env.saved.time = 0
                   THEN IF env.saved.phase = "memorizing"
                        THEN transitionToRecallPhase(m, e)
                        ELSE IF env.saved.phase = "recalling"
                             THEN evaluateSelection(m, e, undef)
                             ELSE m
                   ELSE m
    IN  [m1 EXCEPT !.render = TRUE]

\* the delayed body of resumeGame
resumeGameDelayed(m, env, undef) ==
    LET e == [env EXCEPT !.saved = NeutralSaved]
        m1 == IF env.saved.time > 0
              THEN IF env.saved.phase = "memorizing"
                   THEN startMemorizationTimer(m, e, env.saved.time)
                   ELSE IF env.saved.phase = "recalling"
                        THEN startAnswerTimer(m, e, env.saved.time)
                        ELSE m
              ELSE IF env.saved.time = 0
                   THEN IF env.saved.phase = "memorizing"
                        THEN transitionToRecallPhase(m, e)
                        ELSE IF env.saved.phase = "recalling"
                             THEN evaluateSelection(m, e, undef)
                             ELSE m
                   ELSE m
    IN  [m1 EXCEPT !.saved = NeutralSaved, !.render = TRUE]

---------------------------------------------------------------------------
(* Commit of a handler's updates: re-render and effects *)

\* dependencies of the effect that starts the next round
AutoStartDeps(gs, ph) ==
    <<gs.isPlaying, gs.isPaused, gs.gameOver, gs.isMemorizing, gs.isRecalling,
      gs.showingFeedback, ph>>

AutoStartCond(gs, ph) ==
    /\ gs.isPlaying /\ ~gs.isPaused /\ ~gs.gameOver
    /\ ~gs.isMemorizing /\ ~gs.isRecalling /\ ~gs.showingFeedback
    /\ ph = "idle"

\* the effect on [gameState.level, gameState.highestLevel] without its setGameState
HighestLevelEffectNoUpdate(gs) == gs

\* the effect on [gameState.level, gameState.highestLevel] without its test
HighestLevelEffectUnguarded(gs) == [gs EXCEPT !.highestLevel = gs.level]

\* effect on [gameState.level, gameState.highestLevel]
HighestLevelEffect(gs) ==
    IF gs.level > gs.highestLevel THEN [gs EXCEPT !.highestLevel = gs.level] ELSE gs

\* an effect that writes the key whenever level has reached highestLevel
HighestLevelWritesAtEqual(gs) == IF gs.level >= gs.highestLevel THEN 1 ELSE 0

\* localStorage.setItem calls of the effect for the committed state gs
HighestLevelWrites(gs) == IF gs.level > gs.highestLevel THEN 1 ELSE 0

\* a render that schedules no failure fallback
RenderTimeoutsNoFallback(m) ==
    IF m.gs.gameOver THEN {}
    ELSE (IF ~m.sp /\ m.lp
          THEN {Timeout("nextButton", ButtonDelayMs, NoEnv)} ELSE {})

\* timeouts scheduled while the JSX of a render is evaluated
RenderTimeouts(m) ==
    IF m.gs.gameOver THEN {}
    ELSE (IF ~m.sp /\ m.lp
          THEN {Timeout("nextButton", ButtonDelayMs, NoEnv)} ELSE {})
         \cup
         (IF ~m.fp /\ m.lf
          THEN {Timeout("failFallback", ButtonDelayMs, LivesEnv(m))} ELSE {})

\* effect cleanup and re-run when its dependencies changed
AutoStartEffect(m) ==
    IF AutoStartDeps(m.gs, m.ph) = AutoStartDeps(gameState, currentPhase)
    THEN m.tos
    ELSE {t \in m.tos : t.kind # "auto"} \cup
         (IF AutoStartCond(m.gs, m.ph)
          THEN {Timeout("auto", AutoStartDelayMs, EnvOf(m))} ELSE {})

Rendered(m) ==
    \/ m.render
    \/ m.ct # countdownTimer \/ m.ph # currentPhase \/ m.mo # menuOpen
    \/ m.sp # showSuccessPopup \/ m.fp # showFailurePopup \/ m.ls # lastScore
    \/ m.lp # levelPassed \/ m.nb # showNextLevelButton
    \/ m.lf # levelFailed \/ m.rb # showRetryButton

Apply(m, cost) ==
    LET m1 == [m EXCEPT !.gs = HighestLevelEffect(m.gs)]
    IN  /\ gameState' = m1.gs
        /\ countdownTimer' = m.ct
        /\ currentPhase' = m.ph
        /\ savedTimerState' = m.saved
        /\ menuOpen' = m.mo
        /\ showSuccessPopup' = m.sp
        /\ showFailurePopup' = m.fp
        /\ lastScore' = m.ls
        /\ levelPassed' = m.lp
        /\ showNextLevelButton' = m.nb
        /\ levelFailed' = m.lf
        /\ showRetryButton' = m.rb
        /\ isPausedRef' = m1.gs.isPaused
        /\ intervals' = m.ivs
        /\ timeouts' = IF Rendered(m)
                       THEN [m1 EXCEPT !.tos = AutoStartEffect(m1)].tos
                            \cup RenderTimeouts(m1)
                       ELSE m.tos
        /\ storedHighest' = IF m.gs.level > m.gs.highestLevel
                            THEN m.gs.level ELSE storedHighest
        /\ evals' = m.ev
        /\ moves + cost <= MaxMoves
        /\ moves' = moves + cost
        /\ storageWrites' = storageWrites + HighestLevelWrites(m.gs)
        /\ UNCHANGED <<mounted, onGameEndCalls, wallet>>

---------------------------------------------------------------------------
(* Initial state: first render, mount effects run *)

StoredAtStart == {0}

Init ==
    /\ storedHighest \in StoredAtStart
    /\ gameState = InitialGameState(IF storedHighest = 0 THEN 1 ELSE storedHighest)
    /\ countdownTimer = 0
    /\ currentPhase = "idle"
    /\ savedTimerState = NeutralSaved
    /\ menuOpen = FALSE
    /\ showSuccessPopup = FALSE
    /\ showFailurePopup = FALSE
    /\ lastScore = 0
    /\ levelPassed = FALSE
    /\ showNextLevelButton = FALSE
    /\ levelFailed = FALSE
    /\ showRetryButton = FALSE
    /\ isPausedRef = FALSE
    /\ intervals = {}
    /\ timeouts = {Timeout("auto", AutoStartDelayMs,
                           [level |-> 1, lives |-> InitialLives, gameOver |-> FALSE,
                            shape |-> NoShape, sel |-> {}, saved |-> NeutralSaved])}
    /\ mounted = TRUE
    /\ onGameEndCalls = 0
    /\ evals = 0
    /\ moves = 0
    /\ storageWrites = 0
    /\ wallet = WalletAtRest

---------------------------------------------------------------------------
(* Time and timer callbacks *)

Due(t) == t.rem = 0

\* the delay until the next pending callback is due
NextDue == CHOOSE d \in {t.rem : t \in intervals \cup timeouts} :
               \A t \in intervals \cup timeouts : d <= t.rem

\* time passes until the next callback is due
Advance ==
    /\ mounted
    /\ intervals \cup timeouts # {}
    /\ \A t \in intervals \cup timeouts : ~Due(t)
    /\ intervals' = {[i EXCEPT !.rem = @ - NextDue] : i \in intervals}
    /\ timeouts' = {[t EXCEPT !.rem = @ - NextDue] : t \in timeouts}
    /\ UNCHANGED <<gameState, countdownTimer, currentPhase, savedTimerState,
                   menuOpen, showSuccessPopup, showFailurePopup, lastScore,
                   levelPassed, showNextLevelButton, levelFailed, showRetryButton,
                   isPausedRef, storedHighest, mounted, onGameEndCalls, evals,
                   moves, storageWrites, wallet>>

Fired(t) == [Cur EXCEPT !.tos = @ \ {t}]

MemorizeTicks ==
    \E i \in intervals :
        /\ mounted /\ Due(i) /\ i.kind = "memorize"
        /\ Apply(MemorizeTick(Cur, i), 0)

AnswerTicks ==
    \E i \in intervals :
        /\ mounted /\ Due(i) /\ i.kind = "answer"
        /\ Apply(AnswerTick(Cur, i), 0)

\* setTimeout(() => startLevel(), ...) of the effect and of the handlers
StartLevelFires ==
    \E t \in timeouts :
        /\ mounted /\ Due(t) /\ t.kind \in {"auto", "startLevel"}
        /\ \E newShape \in generatePolyomino(getShapeSize(t.env.level)) :
               Apply(startLevel(Fired(t), t.env, newShape), 0)

MemorizeExpires ==
    \E t \in timeouts :
        /\ mounted /\ Due(t) /\ t.kind = "memExpire"
        /\ Apply(IF ~isPausedRef THEN transitionToRecallPhase(Fired(t), t.env)
                                 ELSE Fired(t), 0)

AnswerExpires ==
    \E t \in timeouts, undef \in BOOLEAN :
        /\ mounted /\ Due(t) /\ t.kind = "ansExpire"
        /\ Apply(IF ~isPausedRef THEN evaluateSelection(Fired(t), t.env, undef)
                                 ELSE Fired(t), 0)

\* setTimeout(() => resumeGame(), 50) of GameMenu onClose
ResumeGameFires ==
    \E t \in timeouts :
        /\ mounted /\ Due(t) /\ t.kind = "menuClose"
        /\ Apply(resumeGame(Fired(t), t.env), 0)

ResumeDelayedFires ==
    \E t \in timeouts, undef \in BOOLEAN :
        /\ mounted /\ Due(t) /\ t.kind = "resume"
        /\ Apply(resumeGameDelayed(Fired(t), t.env, undef), 0)

NextButtonFires ==
    \E t \in timeouts :
        /\ mounted /\ Due(t) /\ t.kind = "nextButton"
        /\ Apply([Fired(t) EXCEPT !.nb = TRUE], 0)

FailFallbackFires ==
    \E t \in timeouts :
        /\ mounted /\ Due(t) /\ t.kind = "failFallback"
        /\ Apply(IF t.env.lives <= 0 THEN EndGame(Fired(t))
                                     ELSE [Fired(t) EXCEPT !.rb = TRUE], 0)

---------------------------------------------------------------------------
(* Player actions: the handlers of the rendered elements *)

Playing == mounted /\ ~gameState.gameOver


CellClick ==
    \E c \in RegionXY :
        /\ Playing
        /\ Apply(handleCellClick(Cur, c[1], c[2]), 1)

Submit ==
    \E undef \in BOOLEAN :
        /\ Playing
        /\ gameState.isRecalling /\ ~gameState.isPaused
        /\ gameState.playerSelections # {}
        /\ Apply(evaluateSelection(stopAllTimers(Cur), EnvOf(Cur), undef), 1)

SuccessNext ==
    /\ Playing
    /\ showSuccessPopup \/ showNextLevelButton
    /\ gameState.level < MaxLevel
    /\ Apply(handleSuccessNext(Cur), 1)

FailureTryAgain ==
    /\ Playing
    /\ showFailurePopup
    /\ Apply(handleFailureTryAgain(Cur), 1)

RetryLevel ==
    /\ Playing
    /\ showRetryButton
    /\ Apply(handleRetryLevel(Cur), 1)

\* Dialog onOpenChange(false)
DismissSuccess ==
    /\ Playing
    /\ showSuccessPopup
    /\ Apply([Cur EXCEPT !.sp = FALSE], 1)

DismissFailure ==
    /\ Playing
    /\ showFailurePopup
    /\ Apply([Cur EXCEPT !.fp = FALSE], 1)

PauseClick ==
    /\ Playing
    /\ Apply(togglePause(Cur), 1)

MenuClick ==
    /\ Playing
    /\ Apply([pauseGame(Cur) EXCEPT !.mo = TRUE], 1)

MenuClose ==
    /\ Playing
    /\ menuOpen
    /\ Apply(SetTimeout([Cur EXCEPT !.mo = FALSE], "menuClose", MenuCloseDelayMs,
                        ResumeEnv(Cur)), 1)

Retry ==
    /\ mounted /\ gameState.gameOver
    /\ Apply(handleRetry(Cur), 1)

\* onBackToMenu: onGameEnd(score, level); Home leaves the game screen and
\* GameScreen unmounts, after which its updates have no effect
BackToMenu ==
    /\ mounted /\ gameState.gameOver
    /\ onGameEndCalls' = onGameEndCalls + 1
    /\ mounted' = FALSE
    /\ intervals' = {}
    /\ timeouts' = {}
    /\ moves < MaxMoves
    /\ moves' = moves + 1
    /\ UNCHANGED <<gameState, countdownTimer, currentPhase, savedTimerState,
                   menuOpen, showSuccessPopup, showFailurePopup, lastScore,
                   levelPassed, showNextLevelButton, levelFailed, showRetryButton,
                   isPausedRef, storedHighest, evals, storageWrites, wallet>>

Next ==
    \/ Advance
    \/ MemorizeTicks
    \/ AnswerTicks
    \/ StartLevelFires
    \/ MemorizeExpires
    \/ AnswerExpires
    \/ ResumeGameFires
    \/ ResumeDelayedFires
    \/ NextButtonFires
    \/ FailFallbackFires
    \/ CellClick
    \/ Submit
    \/ SuccessNext
    \/ FailureTryAgain
    \/ RetryLevel
    \/ DismissSuccess
    \/ DismissFailure
    \/ PauseClick
    \/ MenuClick
    \/ MenuClose
    \/ Retry
    \/ BackToMenu

Spec == Init /\ [][Next]_vars

---------------------------------------------------------------------------
(* A session that starts with a persisted 'highestLevel': the state of the  *)
(* first render, before the mount effect has read the key                   *)

\* values of the key left by an earlier session
StoredLevels == {2}

\* the mount effect's read of the key; 0 stands for an absent key
loadHighestLevel(gs, saved) ==
    IF saved # 0 THEN [gs EXCEPT !.highestLevel = saved] ELSE gs

InitStored ==
    /\ storedHighest \in StoredLevels
    /\ gameState = InitialGameState(1)
    /\ countdownTimer = 0
    /\ currentPhase = "idle"
    /\ savedTimerState = NeutralSaved
    /\ menuOpen = FALSE
    /\ showSuccessPopup = FALSE
    /\ showFailurePopup = FALSE
    /\ lastScore = 0
    /\ levelPassed = FALSE
    /\ showNextLevelButton = FALSE
    /\ levelFailed = FALSE
    /\ showRetryButton = FALSE
    /\ isPausedRef = FALSE
    /\ intervals = {}
    /\ timeouts = {}
    /\ mounted = FALSE
    /\ onGameEndCalls = 0
    /\ evals = 0
    /\ moves = 0
    /\ storageWrites = 0
    /\ wallet = WalletAtRest

\* the effects of the first render: the key is loaded and the auto-start
\* timeout is scheduled
Mount ==
    /\ ~mounted /\ onGameEndCalls = 0
    /\ mounted' = TRUE
    /\ gameState' = loadHighestLevel(gameState, storedHighest)
    /\ timeouts' = {Timeout("auto", AutoStartDelayMs, EnvOf(Cur))}
    /\ UNCHANGED <<countdownTimer, currentPhase, savedTimerState, menuOpen,
                   showSuccessPopup, showFailurePopup, lastScore, levelPassed,
                   showNextLevelButton, levelFailed, showRetryButton,
                   isPausedRef, intervals, storedHighest, onGameEndCalls,
                   evals, moves, storageWrites, wallet>>

NextStored == Mount \/ Next

SpecStored == InitStored /\ [][NextStored]_vars

---------------------------------------------------------------------------
(* A session on its last life: the state Spec reaches after two rounds at   *)
(* level 1 ran out of recall time and both failures were acknowledged with  *)
(* Try Again; the player's actions are counted from here                    *)

LastLifeState ==
    \E shape \in generatePolyomino(getShapeSize(1)) :
        LET gs == [InitialGameState(1) EXCEPT !.lives = 1,
                                              !.currentShape = <<shape>>]
            env == [level |-> 1, lives |-> 1, gameOver |-> FALSE,
                    shape |-> <<shape>>, sel |-> {}, saved |-> NeutralSaved]
        IN  /\ gameState = gs
            /\ countdownTimer = 0
            /\ currentPhase = "idle"
            /\ savedTimerState = NeutralSaved
            /\ menuOpen = FALSE
            /\ showSuccessPopup = FALSE
            /\ showFailurePopup = FALSE
            /\ lastScore = 0
            /\ levelPassed = FALSE
            /\ showNextLevelButton = FALSE
            /\ levelFailed = FALSE
            /\ showRetryButton = FALSE
            /\ isPausedRef = FALSE
            /\ intervals = {}
            /\ timeouts = {Timeout("startLevel", NextLevelDelayMs, env),
                           Timeout("auto", AutoStartDelayMs, env)}
            /\ storedHighest = 0
            /\ mounted = TRUE
            /\ onGameEndCalls = 0
            /\ evals = 1
            /\ storageWrites = 0
            /\ wallet = WalletAtRest

InitLastLife == LastLifeState /\ moves = 0

SpecLastLife == InitLastLife /\ [][Next]_vars

---------------------------------------------------------------------------
(* The two countdowns on their own: a round at level 1 whose memorize or    *)
(* recall countdown has just been started with a duration of d seconds, and *)
(* a player who only clicks cells                                           *)

MaxDuration == 5

InitCountdown ==
    \E d \in 0..MaxDuration, kind \in {"memorize", "answer"},
       shape \in generatePolyomino(getShapeSize(1)) :
        LET env == [level |-> 1, lives |-> InitialLives, gameOver |-> FALSE,
                    shape |-> IF kind = "memorize" THEN NoShape ELSE <<shape>>,
                    sel |-> {}, saved |-> NeutralSaved]
        IN  /\ gameState = [InitialGameState(1) EXCEPT
                                !.isMemorizing = (kind = "memorize"),
                                !.isRecalling = (kind = "answer"),
                                !.currentShape = <<shape>>]
            /\ countdownTimer = d
            /\ currentPhase = IF kind = "memorize" THEN "memorizing" ELSE "recalling"
            /\ intervals = {Interval(kind, env)}
            /\ timeouts = {}
            /\ savedTimerState = NeutralSaved
            /\ menuOpen = FALSE
            /\ showSuccessPopup = FALSE
            /\ showFailurePopup = FALSE
            /\ lastScore = 0
            /\ levelPassed = FALSE
            /\ showNextLevelButton = FALSE
            /\ levelFailed = FALSE
            /\ showRetryButton = FALSE
            /\ isPausedRef = FALSE
            /\ storedHighest = 0
            /\ mounted = TRUE
            /\ onGameEndCalls = 0
            /\ evals = 0
            /\ moves = 0
            /\ storageWrites = 0
            /\ wallet = WalletAtRest

NextCountdown ==
    \/ Advance
    \/ MemorizeTicks
    \/ AnswerTicks
    \/ MemorizeExpires
    \/ AnswerExpires
    \/ CellClick

SpecCountdown == InitCountdown /\ [][NextCountdown]_vars

---------------------------------------------------------------------------
(* The evaluation on its own: a first round in Recalling whose target T and *)
(* selections S are any sets of cells of a 2 x 2 block, and a player who    *)
(* presses Submit                                                           *)

EvalCells ==
    {Position(Origin[1] + dx, Origin[2] + dy) : dx \in 0..1, dy \in 0..1}

InitEvaluate ==
    \E T \in (SUBSET EvalCells) \ {{}}, S \in SUBSET EvalCells :
        LET env == [level |-> 1, lives |-> InitialLives, gameOver |-> FALSE,
                    shape |-> NoShape, sel |-> {}, saved |-> NeutralSaved]
        IN  /\ gameState = [InitialGameState(1) EXCEPT
                                !.isRecalling = TRUE,
                                !.currentShape = <<T>>,
                                !.playerSelections = S]
            /\ countdownTimer = getRecallTime(1) \div 1000
            /\ currentPhase = "recalling"
            /\ intervals = {Interval("answer", env)}
            /\ timeouts = {}
            /\ savedTimerState = NeutralSaved
            /\ menuOpen = FALSE
            /\ showSuccessPopup = FALSE
            /\ showFailurePopup = FALSE
            /\ lastScore = 0
            /\ levelPassed = FALSE
            /\ showNextLevelButton = FALSE
            /\ levelFailed = FALSE
            /\ showRetryButton = FALSE
            /\ isPausedRef = FALSE
            /\ storedHighest = 0
            /\ mounted = TRUE
            /\ onGameEndCalls = 0
            /\ evals = 0
            /\ moves = 0
            /\ storageWrites = 0
            /\ wallet = WalletAtRest

NextEvaluate == Submit

SpecEvaluate == InitEvaluate /\ [][NextEvaluate]_vars

---------------------------------------------------------------------------
(* The shape generator on its own: the growth procedure of the contract on  *)
(* a grid of GenGridN x GenGridN cells, applied by the round start of a     *)
(* session at any level up to the first one whose size exceeds the grid     *)

GenGridN == 3
GenCapacity == GenGridN * GenGridN
GenOrigin == <<GenGridN \div 2, GenGridN \div 2>>
GenGrid == {Position(x, y) : x \in 0..(GenGridN - 1), y \in 0..(GenGridN - 1)}

\* the edge-adjacent neighbours of cell p inside the grid
GenNeighbours(p) == {q \in GenGrid : Adjacent(p, q)}

\* a growth step that also takes diagonal neighbours
GrowStepDiagonal(S) ==
    {S \cup {q} : q \in {r \in GenGrid \ S :
                            \E c \in S : r - c \in {GridN + 1, GridN - 1,
                                                     -(GridN + 1), -(GridN - 1)}}}

\* a growth step that gives up when the cell it picked has no free neighbour
GrowStepNoRestart(S) ==
    {S \cup {q} : q \in UNION {GenNeighbours(c) \ S : c \in S}}
    \cup (IF \E c \in S : GenNeighbours(c) \ S = {} THEN {S} ELSE {})

\* one growth step: a cell c of the shape and a neighbour of c not yet in the
\* shape; a cell without such a neighbour is passed over for another one
GrowStep(S) == {S \cup {q} : q \in UNION {GenNeighbours(c) \ S : c \in S}}

\* the shapes the procedure can hold after k - 1 growth steps from the origin
\* <<L1, ..., Lk>>: Li holds the shapes the procedure can hold after i - 1
\* growth steps from the origin
RECURSIVE GrowthLayersUpTo(_)
GrowthLayersUpTo(k) ==
    IF k <= 1 THEN <<{{Position(GenOrigin[1], GenOrigin[2])}}>>
    ELSE LET prev == GrowthLayersUpTo(k - 1)
         IN  Append(prev, UNION {GrowStep(S) : S \in prev[k - 1]})

GrowthLayers == GrowthLayersUpTo(GenCapacity)

\* generatePolyomino on the GenGridN grid: a size above capacity is clamped
growPolyomino(size) == GrowthLayers[Min(size, GenCapacity)]

\* the first level whose shape size exceeds the capacity of the grid
GenMaxLevel == ShapeStep * GenCapacity

InitGenerate ==
    \E level \in 1..GenMaxLevel :
        LET gs == [InitialGameState(level) EXCEPT
                      !.level = level,
                      !.score = 50 * level * (level - 1)]
        IN  /\ gameState = gs
            /\ countdownTimer = 0
            /\ currentPhase = "idle"
            /\ savedTimerState = NeutralSaved
            /\ menuOpen = FALSE
            /\ showSuccessPopup = FALSE
            /\ showFailurePopup = FALSE
            /\ lastScore = 0
            /\ levelPassed = FALSE
            /\ showNextLevelButton = FALSE
            /\ levelFailed = FALSE
            /\ showRetryButton = FALSE
            /\ isPausedRef = FALSE
            /\ intervals = {}
            /\ timeouts = {Timeout("auto", AutoStartDelayMs,
                                   [level |-> level, lives |-> InitialLives,
                                    gameOver |-> FALSE, shape |-> NoShape,
                                    sel |-> {}, saved |-> NeutralSaved])}
            /\ storedHighest = IF level > 1 THEN level ELSE 0
            /\ mounted = TRUE
            /\ onGameEndCalls = 0
            /\ evals = 0
            /\ moves = 0
            /\ storageWrites = 0
            /\ wallet = WalletAtRest

\* startLevel with the generator on the GenGridN grid
GenerateFires ==
    \E t \in timeouts :
        /\ mounted /\ Due(t) /\ t.kind \in {"auto", "startLevel"}
        /\ \E newShape \in growPolyomino(getShapeSize(t.env.level)) :
               Apply(startLevel(Fired(t), t.env, newShape), 0)

NextGenerate == Advance \/ GenerateFires

SpecGenerate == InitGenerate /\ [][NextGenerate]_vars

---------------------------------------------------------------------------
(* A round at level 1 whose countdown has just been started with a duration *)
(* of d seconds, played with every operation of the screen                  *)

InitResume == InitCountdown /\ countdownTimer = 0

SpecResume == InitResume /\ [][Next]_vars

---------------------------------------------------------------------------
(* lib/walletService: fetchBalance and sendPayment, one step per await; the *)
(* connector answers each request with any of the outcomes it can give, and *)
(* the user may change the network of the wallet at any moment              *)

MaxUnits == 2
MaxSent == 1

Amounts == 0..MaxUnits
GasEstimates == 1..MaxUnits
GasPrices == 0..MaxUnits

\* a sum without the gas cost
totalRequiredNoGas(amountInWei, estimatedGas, gasPrice) == amountInWei

\* totalRequired = amountInWei + estimatedGas * gasPrice
totalRequired(amountInWei, estimatedGas, gasPrice) ==
    amountInWei + estimatedGas * gasPrice

\* the balances around every total the inputs can require
Balances ==
    {b \in {totalRequired(a, g, p) + d :
                a \in Amounts, g \in GasEstimates \cup {DefaultGas},
                p \in GasPrices, d \in {-1, 0, 1}} : b >= 0}

\* a verification that accepts every chain
chainVerifiedAlways(verifyChainId) == TRUE

\* verifyChainId === CELO_MAINNET_CHAIN_ID
chainVerified(verifyChainId) == verifyChainId = CELO_MAINNET_CHAIN_ID

gameVars == <<gameState, countdownTimer, currentPhase, savedTimerState, menuOpen,
              showSuccessPopup, showFailurePopup, lastScore, levelPassed,
              showNextLevelButton, levelFailed, showRetryButton, isPausedRef,
              intervals, timeouts, storedHighest, mounted, onGameEndCalls,
              evals, moves, storageWrites>>

WalletStep(w) == wallet' = w /\ UNCHANGED gameVars

\* sendPayment returns true or throws; its locals are gone
sendPaymentReturns(w, outcome) ==
    [w EXCEPT !.pc = "idle", !.op = "none", !.nested = FALSE,
              !.result = outcome, !.amount = 0, !.balance = 0, !.gas = 0,
              !.gasPrice = 0, !.estimateFailed = FALSE]

\* fetchBalance returns; inside sendPayment the payment then returns true
fetchBalanceReturns(w) ==
    IF w.nested THEN sendPaymentReturns(w, "true")
    ELSE [w EXCEPT !.pc = "idle", !.op = "none"]

\* the catch block of fetchBalance
fetchBalanceCatch(w) ==
    fetchBalanceReturns([w EXCEPT !.text = BalanceText(0),
                                  !.isLoadingBalance = FALSE])

\* the catch block of sendPayment: the error is thrown to the caller
sendPaymentCatch(w, message) == sendPaymentReturns(w, message)

\* an exception reaches the catch block of the function that is running
Throws(w, message) ==
    IF w.op = "fetchBalance" THEN fetchBalanceCatch(w)
    ELSE sendPaymentCatch(w, message)

\* fetchBalance(address) up to its first await
fetchBalance(w, address) ==
    IF address = "" THEN w
    ELSE [w EXCEPT !.pc = "ensure", !.op = "fetchBalance",
                   !.verified = FALSE, !.switched = FALSE,
                   !.isLoadingBalance = TRUE]

CallFetchBalance ==
    /\ wallet.pc = "idle"
    /\ \E address \in {"", "0xA"} :
          WalletStep(fetchBalance([wallet EXCEPT !.result = "none"], address))

\* sendPayment(toAddress, amountInCelo) up to its first await
CallSendPayment ==
    /\ wallet.pc = "idle" /\ wallet.sent < MaxSent
    /\ \E connected \in BOOLEAN, validAddress \in BOOLEAN, amount \in Amounts :
          LET w == [wallet EXCEPT !.result = "none",
                                  !.amount = amount, !.balance = 0, !.gas = 0,
                                  !.gasPrice = 0, !.estimateFailed = FALSE,
                                  !.verified = FALSE, !.switched = FALSE]
          IN  WalletStep(
                IF ~connected THEN [w EXCEPT !.result = "Wallet not connected"]
                ELSE IF ~validAddress
                     THEN sendPaymentCatch(w, "Invalid recipient address format")
                     ELSE [w EXCEPT !.pc = "ensure", !.op = "sendPayment"])

\* ensureCeloMainnet: the first getChainId answers
EnsureReadsChain ==
    /\ wallet.pc = "ensure"
    /\ \E threw \in BOOLEAN :
          WalletStep(
            IF threw THEN Throws(wallet, "Unable to switch to CELO Mainnet")
            ELSE IF wallet.chain # CELO_MAINNET_CHAIN_ID
                 THEN [wallet EXCEPT !.pc = "switchChain"]
                 ELSE [wallet EXCEPT !.pc = "recheck", !.verified = TRUE])

\* ensureCeloMainnet: switchChain answers and the 1500 ms wait passes
SwitchChainReturns ==
    /\ wallet.pc = "switchChain"
    /\ \E outcome \in {"switched", "ignored", "threw"} :
          WalletStep(
            IF outcome = "threw"
            THEN Throws(wallet, "Unable to switch to CELO Mainnet")
            ELSE IF outcome = "switched"
                 THEN [wallet EXCEPT !.pc = "verify", !.switched = TRUE,
                                     !.chain = CELO_MAINNET_CHAIN_ID]
                 ELSE [wallet EXCEPT !.pc = "verify", !.switched = TRUE])

\* ensureCeloMainnet: the getChainId after the switch answers
EnsureVerifies ==
    /\ wallet.pc = "verify"
    /\ \E threw \in BOOLEAN :
          WalletStep(
            IF threw \/ ~chainVerified(wallet.chain)
            THEN Throws(wallet, "Unable to switch to CELO Mainnet")
            ELSE [wallet EXCEPT !.pc = "recheck", !.verified = TRUE])

\* the getChainId after ensureCeloMainnet: compared in sendPayment only
RecheckChain ==
    /\ wallet.pc = "recheck"
    /\ \E threw \in BOOLEAN :
          WalletStep(
            IF threw THEN Throws(wallet, "getChainId failed")
            ELSE IF wallet.op = "sendPayment"
                    /\ wallet.chain # CELO_MAINNET_CHAIN_ID
                 THEN sendPaymentCatch(wallet, "Failed to switch to CELO Mainnet")
                 ELSE [wallet EXCEPT !.pc = "getBalance"])

\* the balances fetchBalance is given to display
DisplayedBalances == {b \in Balances : b <= MaxUnits}

\* getBalance answers
GetBalanceReturns ==
    /\ wallet.pc = "getBalance"
    /\ \E threw \in BOOLEAN,
          value \in IF wallet.op = "fetchBalance" THEN DisplayedBalances
                                                 ELSE Balances :
          WalletStep(
            IF threw THEN Throws(wallet, "getBalance failed")
            ELSE IF wallet.op = "fetchBalance"
                 THEN fetchBalanceReturns(
                          [wallet EXCEPT !.text = BalanceText(value),
                                         !.isLoadingBalance = FALSE])
                 ELSE [wallet EXCEPT !.pc = "estimateGas", !.balance = value])

\* estimateGas answers; a failed estimation falls back to 100000
EstimateGasReturns ==
    /\ wallet.pc = "estimateGas"
    /\ \E failed \in BOOLEAN, estimatedGas \in GasEstimates :
          WalletStep([wallet EXCEPT !.pc = "getGasPrice",
                                    !.estimateFailed = failed,
                                    !.gas = IF failed THEN DefaultGas
                                                      ELSE estimatedGas])

\* getGasPrice answers; the balance check; sendTransaction is called
GetGasPriceReturns ==
    /\ wallet.pc = "getGasPrice"
    /\ \E threw \in BOOLEAN, gasPrice \in GasPrices :
          WalletStep(
            IF threw THEN Throws(wallet, "getGasPrice failed")
            ELSE LET w == [wallet EXCEPT !.gasPrice = gasPrice]
                 IN  IF w.balance < totalRequired(w.amount, w.gas, gasPrice)
                     THEN sendPaymentCatch(w, "Insufficient balance")
                     ELSE [w EXCEPT !.pc = "sendTransaction", !.sent = @ + 1])

\* sendTransaction answers
SendTransactionReturns ==
    /\ wallet.pc = "sendTransaction"
    /\ \E outcome \in {"hash", "rejected", "threw"} :
          WalletStep(
            IF outcome = "rejected"
            THEN sendPaymentCatch(wallet, "Transaction rejected by user")
            ELSE IF outcome = "threw"
                 THEN sendPaymentCatch(wallet, "Payment failed")
                 ELSE [wallet EXCEPT !.pc = "receipt"])

\* waitForTransactionReceipt answers; on success the referral is submitted
\* (its failure is swallowed) and the balance is fetched again
ReceiptReturns ==
    /\ wallet.pc = "receipt"
    /\ \E outcome \in {"success", "reverted", "threw"} :
          WalletStep(
            IF outcome = "success"
            THEN [fetchBalance(wallet, "0xA") EXCEPT !.nested = TRUE]
            ELSE sendPaymentCatch(wallet, "Transaction failed"))

\* the user changes the network in the wallet
ChainChanges ==
    \E id \in ChainIds \ {wallet.chain} :
        WalletStep([wallet EXCEPT !.chain = id])

NextWallet ==
    \/ CallFetchBalance
    \/ CallSendPayment
    \/ EnsureReadsChain
    \/ SwitchChainReturns
    \/ EnsureVerifies
    \/ RecheckChain
    \/ GetBalanceReturns
    \/ EstimateGasReturns
    \/ GetGasPriceReturns
    \/ SendTransactionReturns
    \/ ReceiptReturns
    \/ ChainChanges

SpecWallet == Init /\ [][NextWallet]_vars

---------------------------------------------------------------------------
(* Observations used by the properties *)

Running(kind) == \E i \in intervals : i.kind = kind

KindOf(phase) == IF phase = "memorizing" THEN "memorize" ELSE "answer"

ResumeChainPending == \E t \in timeouts : t.kind \in {"menuClose", "resume"}

\* the delayed body of resumeGame runs for the pending callback t
ResumeDelayedRuns(t) ==
    /\ mounted /\ Due(t) /\ t.kind = "resume"
    /\ \E undef \in BOOLEAN : Apply(resumeGameDelayed(Fired(t), t.env, undef), 0)

---------------------------------------------------------------------------
(* Pause and resume properties *)

\* C1: while isPaused is true no memorize or recall interval is active and
\* countdownTimer keeps its value until the game is unpaused, whichever
\* operation set isPaused (pauseGame or togglePause).
C1_PausedFreezesCountdown ==
    [][gameState.isPaused =>
          /\ intervals = {}
          /\ (gameState'.isPaused => countdownTimer' = countdownTimer)]_vars

RecallTransitionPending ==
    \E t \in timeouts :
        \/ t.kind = "memExpire"
        \/ (t.kind \in {"menuClose", "resume"}
              /\ t.env.saved = [time |-> 0, phase |-> "memorizing"])

\* C3: when a session whose memorize countdown ran out during a pause is
\* unpaused, the transition to Recalling is performed or still pending.
C3_DeferredMemorizeExpiry ==
    [][(/\ gameState.isPaused /\ ~gameState'.isPaused
        /\ gameState.isMemorizing /\ gameState'.isMemorizing
        /\ countdownTimer = 0 /\ currentPhase = "idle"
        /\ ~Running("memorize")) =>
           RecallTransitionPending']_vars

---------------------------------------------------------------------------
(* Evaluation properties *)

\* the expiry callback of the recall countdown runs evaluateSelection for t
AutoSubmitRuns(t) ==
    /\ mounted /\ Due(t) /\ t.kind = "ansExpire" /\ ~isPausedRef
    /\ \E undef \in BOOLEAN : Apply(evaluateSelection(Fired(t), t.env, undef), 0)

\* a round in Recalling is evaluated in this step
RoundEvaluated ==
    /\ gameState.isRecalling
    /\ ~gameState'.isRecalling /\ gameState'.showingFeedback

\* C4: the auto-submit at recall expiry produces what a manual submit of the
\* current round's shape and the current selections produces.
C4_AutoSubmitAsManual ==
    [][\A t \in timeouts :
          AutoSubmitRuns(t) =>
              \E undef \in BOOLEAN :
                  Apply(evaluateSelection(Fired(t), EnvOf(Cur), undef), 0)]_vars

\* C5: when a round at level L that was evaluated once, as passed, with the
\* selections equal to the target is acknowledged through handleSuccessNext,
\* the level becomes L + 1 and the score grows by exactly L * 100.
C5_PerfectRoundAdvances ==
    [][(/\ SuccessNext
        /\ levelPassed /\ evals = 1
        /\ gameState.currentShape # NoShape
        /\ gameState.playerSelections = Cells(gameState.currentShape)) =>
           /\ gameState'.level = gameState.level + 1
           /\ gameState'.score = gameState.score + gameState.level * 100]_vars

\* C6: a round failed with one life left leaves lives = 0 and levelWhenDied =
\* level; at zero lives no further round starts, and acknowledging the failure
\* ends the session (gameOver true, isPlaying false).
C6_LastLifeEndsSession ==
    [][/\ (RoundEvaluated /\ levelFailed' /\ gameState.lives = 1) =>
              /\ gameState'.lives = 0
              /\ gameState'.levelWhenDied = gameState.level
       /\ (gameState.lives = 0 /\ ~gameState.gameOver) =>
              ~(~gameState.isMemorizing /\ gameState'.isMemorizing)
       /\ (gameState.lives = 0 /\ (FailureTryAgain \/ RetryLevel)) =>
              /\ gameState'.gameOver /\ ~gameState'.isPlaying]_vars

\* C7: a session that reached GameOver has reported its result through
\* onGameEnd exactly once when it leaves GameOver, and never reports twice.
C7_GameEndReportedOnce ==
    [][/\ onGameEndCalls' <= 1
       /\ (gameState.gameOver /\ ~gameState'.gameOver) => onGameEndCalls' = 1]_vars

\* C8: gameState.lives is never negative.
C8_LivesNonNegative == gameState.lives >= 0

\* C9: between two round starts the round is evaluated at most once.
C9_SingleEvaluation == evals <= 1

\* C10: a request to evaluate while the session is not in Recalling changes
\* nothing of the round's outcome.
C10_EvaluateOutsideRecallingIsNoOp ==
    [][\A t \in timeouts :
          (AutoSubmitRuns(t) /\ ~gameState.isRecalling) =>
              UNCHANGED <<gameState, lastScore, levelPassed, levelFailed,
                          showSuccessPopup, showFailurePopup>>]_vars

---------------------------------------------------------------------------
(* Input gating and round start properties *)

\* the recall countdown has reached 0 and its evaluation has not run yet
RecallExpiryPending ==
    /\ gameState.isRecalling
    /\ \E t \in timeouts : t.kind = "ansExpire"

\* C11: once the recall countdown has reached 0, a cell click does not change
\* playerSelections before the evaluation of the expiry takes place.
C11_NoInputAfterRecallExpiry ==
    [][(CellClick /\ RecallExpiryPending) =>
           gameState'.playerSelections = gameState.playerSelections]_vars

\* C12: a cell click changes nothing but playerSelections, and changes nothing
\* at all unless the session is in Recalling and not paused.
C12_CellClickFrame ==
    [][CellClick =>
          /\ gameState' = [gameState EXCEPT
                              !.playerSelections = gameState'.playerSelections]
          /\ UNCHANGED <<countdownTimer, currentPhase, savedTimerState, menuOpen,
                         showSuccessPopup, showFailurePopup, lastScore,
                         levelPassed, showNextLevelButton, levelFailed,
                         showRetryButton, intervals, storedHighest,
                         onGameEndCalls>>
          /\ ~(gameState.isRecalling /\ ~gameState.isPaused) =>
                 UNCHANGED <<gameState, timeouts>>]_vars

\* a selection made during Recalling, and one kept through a pause
C12_Witness ==
    /\ gameState.isRecalling /\ gameState.isPaused
    /\ gameState.playerSelections # {}
    /\ moves >= 2

\* a round starts in this step
RoundStarts == ~gameState.isMemorizing /\ gameState'.isMemorizing

\* the scheduled startLevel callback t runs in this step
StartLevelRuns(t) ==
    /\ mounted /\ Due(t) /\ t.kind \in {"auto", "startLevel"}
    /\ \E newShape \in generatePolyomino(getShapeSize(t.env.level)) :
           Apply(startLevel(Fired(t), t.env, newShape), 0)

\* C13: every round start reads the level of the session state at that
\* moment, computes the shape size and the memorize duration from it and
\* clears playerSelections.
C13_RoundStartUsesCurrentLevel ==
    [][RoundStarts =>
          /\ \A t \in timeouts : StartLevelRuns(t) => t.env.level = gameState.level
          /\ Cardinality(Cells(gameState'.currentShape)) = getShapeSize(gameState.level)
          /\ countdownTimer' = getMemorizationTime(gameState.level) \div 1000
          /\ gameState'.playerSelections = {}]_vars

---------------------------------------------------------------------------
(* Retry and failure acknowledgement properties *)

\* a callback that will start a round when it fires unpaused
RoundStartPending ==
    \E t \in timeouts : t.kind \in {"auto", "startLevel"} /\ ~t.env.gameOver

\* C14: after handleRetry in the GameOver state of an unpaused session a round
\* start is pending, whichever way the last round was evaluated.
C14_RetryResumesPlay ==
    [][(Retry /\ ~gameState.isPaused) => RoundStartPending']_vars

\* C15: handleRetry leaves lives = 3, level = levelWhenDied, gameOver,
\* isMemorizing, isRecalling and showingFeedback false and the score as it
\* was; levelWhenDied is the level at which the last life was lost.
C15_RetryResetsSession ==
    [][/\ Retry =>
            /\ gameState'.lives = InitialLives
            /\ gameState'.level = gameState.levelWhenDied
            /\ ~gameState'.gameOver /\ gameState'.isPlaying
            /\ ~gameState'.isMemorizing /\ ~gameState'.isRecalling
            /\ ~gameState'.showingFeedback
            /\ gameState'.score = gameState.score
       /\ (gameState.lives > 0 /\ gameState'.lives <= 0) =>
            gameState'.levelWhenDied = gameState.level]_vars

\* the session right after a retry of a game lost at level 1
C15_Witness ==
    /\ gameState.lives = InitialLives /\ gameState.level = 1 /\ gameState.score = 0
    /\ evals >= 1
    /\ ~gameState.gameOver /\ ~gameState.showingFeedback
    /\ ~gameState.isMemorizing /\ ~gameState.isRecalling
    /\ \E t \in timeouts : t.kind = "startLevel" /\ t.rem = RetryDelayMs

\* the failure of the current feedback is acknowledged in this step
FailureAcknowledged == FailureTryAgain \/ RetryLevel

---------------------------------------------------------------------------
(* Evaluation outcome properties *)

\* C17: an evaluated round is passed exactly when its accuracy is 1; a failed
\* evaluation takes exactly one life and leaves score and level as they were,
\* and score and level stay the same until the failure has been acknowledged.
C17_OnlyExactMatchPasses ==
    [][/\ RoundEvaluated =>
            /\ levelPassed' <=> (gameState'.accuracy[1] = gameState'.accuracy[2])
            /\ levelPassed' <=> ~levelFailed'
       /\ (RoundEvaluated /\ levelFailed') =>
            /\ gameState'.lives = gameState.lives - 1
            /\ gameState'.score = gameState.score
            /\ gameState'.level = gameState.level
       /\ levelFailed =>
            /\ gameState'.score = gameState.score
            /\ gameState'.level = gameState.level]_vars

---------------------------------------------------------------------------
(* Timer properties *)

\* the live intervals of one kind
ActiveIntervals(kind) == {i \in intervals : i.kind = kind}

\* the expiry callbacks of one kind that are scheduled and have not run
PendingExpiries(kind) == {t \in timeouts : t.kind = kind}

\* C18: at any time at most one memorize interval and at most one recall
\* interval is active, and at most one expiry callback of each kind is pending.
C18_OneTimerPerKind ==
    /\ Cardinality(ActiveIntervals("memorize")) <= 1
    /\ Cardinality(ActiveIntervals("answer")) <= 1
    /\ Cardinality(PendingExpiries("memExpire")) <= 1
    /\ Cardinality(PendingExpiries("ansExpire")) <= 1

\* a countdown is running and a resumeGame callback is about to start
\* another one of the same kind
C18_Witness ==
    \E i \in intervals, t \in timeouts :
        /\ t.kind = "resume" /\ t.env.saved.time > 0
        /\ i.kind = KindOf(t.env.saved.phase)
        /\ ~gameState.isPaused

---------------------------------------------------------------------------
(* Persistence of the highest level *)

\* the committed level exceeds the highestLevel held before the step
NewMaximum == gameState'.level > gameState.highestLevel

\* C19: whenever level becomes greater than highestLevel, highestLevel is set
\* to that level and the same value is written to the 'highestLevel' key;
\* afterwards the in-memory and the persisted value are equal and >= level.
C19_HighestLevelWriteThrough ==
    [][/\ NewMaximum =>
            /\ gameState'.highestLevel = gameState'.level
            /\ storedHighest' = gameState'.level
       /\ gameState'.highestLevel >= gameState'.level
       /\ storageWrites' > 0 => storedHighest' = gameState'.highestLevel]_vars

\* a level above the initial highestLevel has been reached and persisted
C19_Witness ==
    /\ gameState.level > 1
    /\ gameState.highestLevel = gameState.level
    /\ storedHighest = gameState.level

\* C20: a step that raises level above highestLevel writes the 'highestLevel'
\* key exactly once; every other step (ticks, pauses, selections, retries)
\* does not write it.
C20_PersistedExactlyOnce ==
    [][/\ NewMaximum => storageWrites' = storageWrites + 1
       /\ ~NewMaximum =>
            /\ storageWrites' = storageWrites
            /\ storedHighest' = storedHighest]_vars

\* two maxima were reached, each written once, and play went on after the
\* second one
C20_Witness ==
    /\ gameState.highestLevel = 3
    /\ storageWrites = 2
    /\ gameState.isMemorizing

\* C21: neither the in-memory highestLevel nor the persisted value is ever
\* replaced by a smaller one, from the load at session start onwards.
C21_HighestLevelNeverDecreases ==
    [][/\ gameState'.highestLevel >= gameState.highestLevel
       /\ storedHighest' >= storedHighest]_vars

\* a session that loaded a persisted value, exceeded it and went on playing
C21_Witness ==
    /\ storedHighest \notin StoredLevels
    /\ storedHighest = gameState.highestLevel
    /\ gameState.highestLevel > 1
    /\ gameState.isMemorizing

---------------------------------------------------------------------------
(* Monotonicity of the session counters *)

\* C22: level is at least 1 and no step makes it smaller; handleRetry sets it
\* to a value not below the level held before it.
C22_LevelNeverDecreases ==
    [][/\ gameState'.level >= 1
       /\ gameState'.level >= gameState.level]_vars

\* C23: score is at least 0 and no step, failure, game over and handleRetry
\* included, makes it smaller.
C23_ScoreNeverDecreases ==
    [][/\ gameState'.score >= 0
       /\ gameState'.score >= gameState.score]_vars

\* a session on its last life ended, was retried and kept the points it had won
C23_Witness ==
    /\ gameState.lives = InitialLives
    /\ gameState.score > 0
    /\ ~gameState.gameOver

---------------------------------------------------------------------------
(* Shape lifecycle *)

\* no round is in progress: between rounds, or in GameOver
RoundResolved ==
    \/ gameState.gameOver
    \/ ~gameState.isMemorizing /\ ~gameState.isRecalling /\ ~gameState.showingFeedback

\* C24: currentShape is assigned only by a round start, and is absent in every
\* state between the acknowledgement of a round's feedback and the next round
\* start, and in GameOver.
C24_ShapeLifecycle ==
    [][/\ (gameState'.currentShape # gameState.currentShape
             /\ gameState'.currentShape # NoShape) =>
            \E t \in timeouts : StartLevelRuns(t) /\ gameState'.isMemorizing
       /\ RoundResolved' => gameState'.currentShape = NoShape]_vars

---------------------------------------------------------------------------
(* Countdown properties *)

\* no interval is live and no callback is pending
Quiescent == intervals = {} /\ timeouts = {}

\* C25: a countdown started with duration 0 shows 0, never a negative value;
\* its first tick stops the interval and schedules the countdown's expiry
\* once, and when nothing is left to run the round has been evaluated once.
C25_ZeroLengthCountdown ==
    [][/\ countdownTimer' >= 0
       /\ (countdownTimer = 0 /\ MemorizeTicks) =>
            /\ countdownTimer' = 0
            /\ ActiveIntervals("memorize")' = {}
            /\ Cardinality(PendingExpiries("memExpire")') = 1
       /\ (countdownTimer = 0 /\ AnswerTicks) =>
            /\ countdownTimer' = 0
            /\ ActiveIntervals("answer")' = {}
            /\ Cardinality(PendingExpiries("ansExpire")') = 1
       /\ Quiescent' => (gameState'.showingFeedback /\ evals' = 1)]_vars

\* the interval of a memorize countdown of duration 0 is about to tick
C25_Witness ==
    /\ countdownTimer = 0 /\ currentPhase = "memorizing"
    /\ gameState.isMemorizing
    /\ \E i \in intervals : i.kind = "memorize" /\ Due(i)

---------------------------------------------------------------------------
(* Scoring properties *)

\* C26: the accuracy evaluateSelection computes for a target T and selections
\* S is 1 exactly when S = T, and below 1 for every other S; only then is the
\* round passed.
C26_AccuracyOneIffExactMatch ==
    [][Submit =>
          LET T == Cells(gameState.currentShape)
              S == gameState.playerSelections
              accuracy == gameState'.accuracy
          IN  /\ accuracy[2] > 0
              /\ accuracy[1] <= accuracy[2]
              /\ accuracy[1] = accuracy[2] <=> S = T
              /\ levelPassed' <=> S = T]_vars

\* a selection that holds the whole target and one cell more was evaluated
\* and failed
C26_Witness ==
    /\ gameState.showingFeedback /\ levelFailed
    /\ Cells(gameState.currentShape) \subseteq gameState.playerSelections
    /\ Cells(gameState.currentShape) # gameState.playerSelections
    /\ gameState.accuracy[1] < gameState.accuracy[2]

---------------------------------------------------------------------------
(* Shape generator properties *)

\* C27: the shape generated at a round start of level L has exactly
\* min(size(L), capacity) distinct cells, all inside the grid; a size above
\* the capacity still yields a shape.
C27_GeneratedShapeSize ==
    [][/\ GenerateFires =>
            /\ Cardinality(Cells(gameState'.currentShape)) =
                   Min(getShapeSize(gameState.level), GenCapacity)
            /\ Cells(gameState'.currentShape) \subseteq GenGrid
       /\ (\E t \in timeouts : Due(t)) => ENABLED GenerateFires]_vars

\* the round of the level whose size exceeds the capacity started with a
\* shape that fills the grid
C27_Witness ==
    /\ getShapeSize(gameState.level) > GenCapacity
    /\ gameState.isMemorizing
    /\ Cells(gameState.currentShape) = GenGrid

\* C28: every generated shape is one edge-connected component; the shapes of
\* size k are the shapes held after k - 1 growth steps, so this covers every
\* growth step, those after a cell without free neighbour was passed over
\* included.
C28_GeneratedShapeConnected ==
    [][GenerateFires =>
          /\ gameState'.currentShape # NoShape
          /\ Connected(Cells(gameState'.currentShape))
          /\ \A p \in Cells(gameState'.currentShape) :
                 Reach(Cells(gameState'.currentShape), {p}) =
                     Cells(gameState'.currentShape)]_vars

\* a shape was generated that encloses a cell with no free neighbour left
C28_Witness ==
    /\ gameState.isMemorizing
    /\ Cardinality(Cells(gameState.currentShape)) < GenCapacity
    /\ \E c \in Cells(gameState.currentShape) :
           GenNeighbours(c) \subseteq Cells(gameState.currentShape)


---------------------------------------------------------------------------
(* Resume properties *)

\* C29: after the delayed body of resumeGame ran, at most one countdown is
\* running, a memorize countdown runs only if isMemorizing is true and a
\* recall countdown runs only if isRecalling is true; a pause taken after the
\* round was submitted restarts no recall countdown on resume.
C29_ResumeRestartsMatchingTimer ==
    [][\A t \in timeouts :
          ResumeDelayedRuns(t) =>
              /\ Cardinality(intervals') <= 1
              /\ \A i \in intervals' :
                    /\ i.kind = "memorize" => gameState'.isMemorizing
                    /\ i.kind = "answer" => gameState'.isRecalling]_vars



ExhaustedSnapshot(t) ==
    /\ t.kind = "resume"
    /\ t.env.saved.time = 0
    /\ t.env.saved.phase \in {"memorizing", "recalling"}

---------------------------------------------------------------------------
(* Snapshot consumption *)

PhaseFrame ==
    /\ gameState'.isMemorizing = gameState.isMemorizing
    /\ gameState'.isRecalling = gameState.isRecalling
    /\ gameState'.showingFeedback = gameState.showingFeedback
    /\ currentPhase' = currentPhase
    /\ countdownTimer' = countdownTimer

PendingCalls(kind) == {t \in timeouts : t.kind = kind}

---------------------------------------------------------------------------
(* Pause and the phase *)

\* C32: while isPaused is true no step changes isMemorizing, isRecalling,
\* showingFeedback, currentShape, lives, level or score: a round start, a
\* memorize expiry or a timer-driven evaluation that becomes due while paused
\* does not take effect during the pause.
C32_PauseBlocksPhaseChanges ==
    [][(gameState.isPaused /\ gameState'.isPaused) =>
          /\ gameState'.isMemorizing = gameState.isMemorizing
          /\ gameState'.isRecalling = gameState.isRecalling
          /\ gameState'.showingFeedback = gameState.showingFeedback
          /\ gameState'.currentShape = gameState.currentShape
          /\ gameState'.lives = gameState.lives
          /\ gameState'.level = gameState.level
          /\ gameState'.score = gameState.score]_vars



---------------------------------------------------------------------------
(* Acknowledging a passed round *)

\* C35: for each passed round level is incremented at most once and score is
\* increased at most once: level or score grows only in a step that leaves
\* the feedback of a passed round (by 1 and by the round's points), whatever
\* the interleaving of popup dismissal, 'Next Level', the delayed 'Continue to
\* Level' button and a click on it.
C35_OnePassOneAdvance ==
    [][(gameState'.level > gameState.level \/ gameState'.score > gameState.score) =>
          /\ gameState.showingFeedback /\ ~gameState'.showingFeedback
          /\ gameState'.level = gameState.level + 1
          /\ gameState'.score = gameState.score + lastScore]_vars



---------------------------------------------------------------------------
(* The two countdowns *)

\* C36: the memorize interval and the recall interval are never active at the
\* same time: in no reachable state do both exist and decrement the shared
\* countdownTimer.
C36_OneCountdownAtATime == ~(Running("memorize") /\ Running("answer"))



---------------------------------------------------------------------------
(* Progress of the memorize phase *)

\* C37: in every state with isMemorizing true, not paused, the menu closed
\* and not game over, a memorize countdown is running or its expiry
\* transition is pending (a resumeGame still to run counts as pending), so
\* that pausing and unpausing
\* cannot leave the session in Memorizing with no timer and no pending
\* transition.
C37_MemorizingNeverStalls ==
    (gameState.isMemorizing /\ ~gameState.isPaused /\ ~gameState.gameOver
                            /\ ~menuOpen) =>
        \/ Running("memorize")
        \/ \E t \in timeouts : t.kind \in {"memExpire", "menuClose", "resume"}



---------------------------------------------------------------------------
(* Leaving the feedback *)

\* an acknowledgement control is on screen
AcknowledgementShown ==
    showSuccessPopup \/ showFailurePopup \/ showNextLevelButton \/ showRetryButton

\* a render-time callback that shows a button or ends the session is pending
AcknowledgementPending ==
    \E t \in timeouts : t.kind \in {"nextButton", "failFallback"}

\* C38: in every state with showingFeedback true an acknowledgement that
\* leaves the feedback is available: a popup or a button is on screen, or the
\* callback that shows the button (or ends the session at zero lives) is
\* pending, also after a popup was dismissed without pressing its button; and
\* every acknowledgement leaves the feedback.
C38_FeedbackHasNoDeadEnd ==
    [][/\ (gameState'.showingFeedback /\ ~gameState'.gameOver) =>
            (AcknowledgementShown' \/ AcknowledgementPending')
       /\ NextButtonFires => showNextLevelButton'
       /\ FailFallbackFires => (showRetryButton' \/ gameState'.gameOver)
       /\ (SuccessNext \/ FailureTryAgain \/ RetryLevel) =>
            ~gameState'.showingFeedback]_vars

C38_Witness ==
    /\ gameState.showingFeedback /\ ~gameState.gameOver
    /\ ~showSuccessPopup /\ ~showFailurePopup
    /\ showRetryButton /\ levelFailed



---------------------------------------------------------------------------
(* Phase flags *)

PhaseFlags(gs) ==
    {f \in {"isMemorizing", "isRecalling", "showingFeedback"} : gs[f]}

\* C39: in every reachable state at most one of isMemorizing, isRecalling and
\* showingFeedback is true, and when gameOver is true all three are false.
C39_PhaseFlagsExclusive ==
    /\ Cardinality(PhaseFlags(gameState)) <= 1
    /\ gameState.gameOver => PhaseFlags(gameState) = {}



---------------------------------------------------------------------------
(* Lives and the end of the session *)

\* C40: no round is started (isMemorizing set, shape generated) while lives is
\* 0, and gameOver is true only in states where lives is 0.
C40_NoPlayAtZeroLives ==
    [][/\ (\E t \in timeouts : StartLevelRuns(t) /\ gameState'.isMemorizing) =>
            gameState'.lives # 0
       /\ gameState'.gameOver => gameState'.lives = 0]_vars



---------------------------------------------------------------------------
(* Wallet properties *)

\* C33: sendPayment calls sendTransaction only if the balance it read is at
\* least amount + estimatedGas * gasPrice, estimatedGas being 100000 when the
\* estimation failed; otherwise it fails with an 'Insufficient balance' error
\* and sends no transaction.
C33_PaymentAffordable ==
    [][/\ wallet'.sent # wallet.sent =>
            /\ wallet.op = "sendPayment" /\ wallet.pc = "getGasPrice"
            /\ wallet'.sent = wallet.sent + 1
            /\ wallet'.pc = "sendTransaction"
            /\ wallet'.balance = wallet.balance /\ wallet'.amount = wallet.amount
            /\ wallet'.gas = wallet.gas
            /\ wallet'.balance >= wallet'.amount + wallet'.gas * wallet'.gasPrice
            /\ wallet.estimateFailed => wallet.gas = DefaultGas
       /\ (wallet.pc = "getGasPrice" /\ wallet'.pc = "idle") =>
            /\ wallet'.sent = wallet.sent
            /\ wallet'.result \in {"Insufficient balance", "getGasPrice failed"}
       /\ (wallet'.result = "Insufficient balance" /\ wallet.result = "none") =>
            /\ wallet.pc = "getGasPrice"
            /\ wallet'.sent = wallet.sent
            /\ \E gasPrice \in GasPrices :
                  wallet.balance < wallet.amount + wallet.gas * gasPrice]_vars

C33_Witness ==
    /\ wallet.pc = "sendTransaction" /\ wallet.sent = 1
    /\ wallet.estimateFailed /\ wallet.gasPrice > 0 /\ wallet.amount > 0
    /\ wallet.balance = wallet.amount + DefaultGas * wallet.gasPrice

ChainChecked ==
    {"getBalance", "estimateGas", "getGasPrice", "sendTransaction", "receipt"}

ChainChecking == {"ensure", "switchChain", "verify", "recheck"}

\* C34: in fetchBalance and sendPayment getBalance and sendTransaction are
\* reached only after a chain id read in that call was found equal to 42220,
\* the chain being switched first when the first read differs; sendPayment
\* also reaches getBalance only from a read equal to 42220; when the chain
\* cannot be switched or verified sendPayment throws without sending a
\* transaction and fetchBalance ends with balance '0.0000' and
\* isLoadingBalance false.
C34_ChainCheckedFirst ==
    [][/\ wallet'.pc \in ChainChecked => wallet'.verified
       /\ wallet'.sent # wallet.sent => wallet.verified
       /\ (wallet'.verified /\ ~wallet.verified) =>
            /\ wallet.pc \in {"ensure", "verify"}
            /\ wallet.chain = CELO_MAINNET_CHAIN_ID
       /\ (wallet'.pc = "switchChain" /\ wallet.pc # "switchChain") =>
            /\ wallet.pc = "ensure"
            /\ wallet.chain # CELO_MAINNET_CHAIN_ID
       /\ (wallet.pc = "recheck" /\ wallet'.pc = "getBalance"
                                 /\ wallet.op = "sendPayment") =>
            wallet.chain = CELO_MAINNET_CHAIN_ID
       /\ (wallet.pc \in ChainChecking /\ wallet'.pc = "idle") =>
            /\ wallet'.sent = wallet.sent
            /\ IF wallet.op = "sendPayment"
               THEN wallet'.result \notin {"none", "true"}
               ELSE /\ wallet'.text = BalanceText(0)
                    /\ ~wallet'.isLoadingBalance]_vars

C34_Witness ==
    /\ wallet.pc = "sendTransaction" /\ wallet.sent = 1
    /\ wallet.switched /\ wallet.verified


====
